---- MODULE Spec2Model ----
(***************************************************************************)
(* wgthrottler: a throttled wait group.                                    *)
(*                                                                         *)
(* The repository holds two variants of WgThrottler:                       *)
(*   "global"    src/wg-throttler.go   Next() / Done() / Wait()            *)
(*   "principal" src/unnamed/part_002  Use() / Next(ctx) / Done(ctx) /     *)
(*                                     Wait()                              *)
(* Init picks the variant and the constructor argument max; the actions of *)
(* a variant are the steps of its methods, cut at the points where a       *)
(* goroutine can block (mutex, channel, WaitGroup) or where another        *)
(* goroutine can observe an intermediate state (unlocked reads).           *)
(*                                                                         *)
(* Goroutines, as in the README and the tests: one goroutine per user     *)
(* calls Next (user t is driven by goroutine t; the global variant has the *)
(* same number of Next callers), admitted units are anonymous tasks that   *)
(* call Done, one goroutine calls Use and one calls Wait.                  *)
(***************************************************************************)
EXTENDS Integers, FiniteSets, TLC

\* Largest constructor argument NewThrottler(max) explored.
MaxMax == 2

\* The goroutines that call Next: one per user id that Use() can hand out.
Threads == 1..MaxMax

VARIABLES
    variant,     \* which of the two WgThrottler types this pool is
    max,         \* WgThrottler.max
    c,           \* global: WgThrottler.c
    wg,          \* global: counter of the embedded sync.WaitGroup
    cMap,        \* principal: WgThrottler.cMap, user id -> held count
    last,        \* principal: WgThrottler.last
    total,       \* principal: WgThrottler.total
    mu,          \* the mutex (global: mu, principal: embedded sync.Mutex)
    ch,          \* the unbuffered channel: closed flag and blocked senders
    pc,          \* position of each Next caller
    pcUse,       \* principal: position of the goroutine calling Use()
    contextMax,  \* principal: local `contextMax` of a Next(ctx) call
    pcWait,      \* position of the goroutine calling Wait()
    held,        \* ghost: units whose Next returned and whose Done is not yet called
    phase,       \* ghost: "registering" until the first Next(ctx) call, then
                 \* "admitting"; "late" once Use() registered a user after that
    panicked     \* the program died of a run-time panic

vars == <<variant, max, c, wg, cMap, last, total, mu, ch, pc, pcUse, contextMax,
          pcWait, held, phase, panicked>>

\* The quota of one user: max / len(cMap), rounded up.
ContextMax(m, n) == IF m % n > 0 THEN (m \div n) + 1 ELSE m \div n

\* Number of registered users, len(wg.cMap).
Len(m) == Cardinality(DOMAIN m)

RECURSIVE SumOver(_, _)
SumOver(f, S) == IF S = {} THEN 0
                 ELSE LET x == CHOOSE y \in S : TRUE
                      IN f[x] + SumOver(f, S \ {x})

\* Units currently holding a slot.
Holding == IF variant = "global" THEN held[0] ELSE SumOver(held, DOMAIN held)

Init ==
    /\ variant \in {"global", "principal"}
    /\ max \in 1..MaxMax
    /\ c = 0
    /\ wg = 0
    /\ cMap = <<>>
    /\ last = 0
    /\ total = 0
    /\ mu = FALSE
    /\ ch = [closed |-> FALSE, senders |-> 0]
    /\ pc = [t \in Threads |-> "idle"]
    /\ pcUse = "idle"
    /\ contextMax = [t \in Threads |-> 0]
    /\ pcWait = "idle"
    /\ held = IF variant = "global" THEN (0 :> 0) ELSE <<>>
    /\ phase = "registering"
    /\ panicked = FALSE

Global == variant = "global" /\ ~panicked
Principal == variant = "principal" /\ ~panicked

WaitIdle == pcWait \in {"idle", "returned"}

\* A blocked sender hands its value to a receiver: the channel state after it.
Received == [ch EXCEPT !.senders = @ - 1]

----------------------------------------------------------------------------
(* Global variant, src/wg-throttler.go *)

\* A goroutine calls Next() and reaches wg.mu.Lock(). As with sync.WaitGroup,
\* Add (inside Next) is not called while a Wait() is in progress.
GNextCall(t) ==
    /\ Global /\ pc[t] = "idle" /\ WaitIdle
    /\ pc' = [pc EXCEPT ![t] = "GNext_lock"]
    /\ UNCHANGED <<variant, max, c, wg, cMap, last, total, mu, ch, pcUse,
                   contextMax, pcWait, held, phase, panicked>>

GNextLock(t) ==
    /\ Global /\ pc[t] = "GNext_lock" /\ ~mu
    /\ mu' = TRUE
    /\ pc' = [pc EXCEPT ![t] = "GNext_loop"]
    /\ UNCHANGED <<variant, max, c, wg, cMap, last, total, ch, pcUse,
                   contextMax, pcWait, held, phase, panicked>>

\* Mutant of GNextLoop: the loop condition is c > max, an off-by-one limit.
GNextLoopOffByOne(t) ==
    /\ Global /\ pc[t] = "GNext_loop"
    /\ IF c > max
       THEN /\ pc' = [pc EXCEPT ![t] = "GNext_recv"]
            /\ UNCHANGED <<c, wg, mu, held>>
       ELSE /\ wg' = wg + 1
            /\ c' = c + 1
            /\ mu' = FALSE
            /\ held' = [held EXCEPT ![0] = @ + 1]
            /\ pc' = [pc EXCEPT ![t] = "idle"]
    /\ UNCHANGED <<variant, max, cMap, last, total, ch, pcUse, contextMax,
                   pcWait, phase, panicked>>

\* for wg.c >= wg.max: block in the receive; otherwise wg.wg.Add(1); wg.c++
\* and the deferred Unlock.
GNextLoop(t) ==
    /\ Global /\ pc[t] = "GNext_loop"
    /\ IF c >= max
       THEN /\ pc' = [pc EXCEPT ![t] = "GNext_recv"]
            /\ UNCHANGED <<c, wg, mu, held>>
       ELSE /\ wg' = wg + 1
            /\ c' = c + 1
            /\ mu' = FALSE
            /\ held' = [held EXCEPT ![0] = @ + 1]
            /\ pc' = [pc EXCEPT ![t] = "idle"]
    /\ UNCHANGED <<variant, max, cMap, last, total, ch, pcUse, contextMax,
                   pcWait, phase, panicked>>

\* Mutant of GNextRecv: the received value is not added to c.
GNextRecvKeepsCount(t) ==
    /\ Global /\ pc[t] = "GNext_recv" /\ ch.senders > 0
    /\ ch' = Received
    /\ pc' = [pc EXCEPT ![t] = "GNext_loop"]
    /\ UNCHANGED <<variant, max, c, wg, cMap, last, total, mu, pcUse,
                   contextMax, pcWait, held, phase, panicked>>

\* wg.c += <-wg.ch  (the value received is -1)
GNextRecv(t) ==
    /\ Global /\ pc[t] = "GNext_recv" /\ ch.senders > 0
    /\ ch' = Received
    /\ c' = c + (-1)
    /\ pc' = [pc EXCEPT ![t] = "GNext_loop"]
    /\ UNCHANGED <<variant, max, wg, cMap, last, total, mu, pcUse, contextMax,
                   pcWait, held, phase, panicked>>

\* A unit calls Done(): wg.wg.Done(), then the deferred send blocks until a
\* receiver takes the value.
GDone ==
    /\ Global /\ held[0] > 0
    /\ held' = [held EXCEPT ![0] = @ - 1]
    /\ wg' = wg - 1
    /\ ch' = [ch EXCEPT !.senders = @ + 1]
    /\ UNCHANGED <<variant, max, c, cMap, last, total, mu, pc, pcUse, contextMax,
                   pcWait, phase, panicked>>

GWaitCall ==
    /\ Global /\ WaitIdle
    /\ \A t \in Threads : pc[t] = "idle"
    /\ pcWait' = "GWait_wg"
    /\ UNCHANGED <<variant, max, c, wg, cMap, last, total, mu, ch, pc, pcUse,
                   contextMax, held, phase, panicked>>

\* wg.wg.Wait()
GWaitWg ==
    /\ Global /\ pcWait = "GWait_wg" /\ wg = 0
    /\ pcWait' = "GWait_drain"
    /\ UNCHANGED <<variant, max, c, wg, cMap, last, total, mu, ch, pc, pcUse,
                   contextMax, held, phase, panicked>>

\* Mutant of GWaitDrain: Wait() returns after wg.wg.Wait() without draining.
GWaitSkipsDrain ==
    /\ Global /\ pcWait = "GWait_drain"
    /\ pcWait' = "returned"
    /\ UNCHANGED <<variant, max, c, wg, cMap, last, total, mu, ch, pc, pcUse,
                   contextMax, held, phase, panicked>>

\* for wg.c > 0
GWaitDrain ==
    /\ Global /\ pcWait = "GWait_drain"
    /\ pcWait' = IF c > 0 THEN "GWait_recv" ELSE "returned"
    /\ UNCHANGED <<variant, max, c, wg, cMap, last, total, mu, ch, pc, pcUse,
                   contextMax, held, phase, panicked>>

\* wg.c += <-wg.ch
GWaitRecv ==
    /\ Global /\ pcWait = "GWait_recv" /\ ch.senders > 0
    /\ ch' = Received
    /\ c' = c + (-1)
    /\ pcWait' = "GWait_drain"
    /\ UNCHANGED <<variant, max, wg, cMap, last, total, mu, pc, pcUse, contextMax,
                   held, phase, panicked>>

GNext ==
    \/ \E t \in Threads : GNextCall(t)
    \/ \E t \in Threads : GNextLock(t)
    \/ \E t \in Threads : GNextLoop(t)
    \/ \E t \in Threads : GNextRecv(t)
    \/ GDone
    \/ GWaitCall
    \/ GWaitWg
    \/ GWaitDrain
    \/ GWaitRecv

----------------------------------------------------------------------------
(* Per-principal variant, src/unnamed/part_002 *)

\* A goroutine calls Use() and reaches wg.Lock().
UseCall ==
    /\ Principal /\ pcUse = "idle"
    /\ pcUse' = "Use_lock"
    /\ UNCHANGED <<variant, max, c, wg, cMap, last, total, mu, ch, pc,
                   contextMax, pcWait, held, phase, panicked>>

\* The body of Use() under the lock: refuse (nil) when len(cMap) >= max,
\* otherwise register user last+1 with count 0.
Use ==
    /\ Principal /\ pcUse = "Use_lock" /\ ~mu
    /\ IF Len(cMap) >= max
       THEN UNCHANGED <<last, cMap, held, phase>>
       ELSE /\ last' = last + 1
            /\ cMap' = cMap @@ (last' :> 0)
            /\ held' = held @@ (last' :> 0)
            /\ phase' = IF phase = "registering" THEN phase ELSE "late"
    /\ pcUse' = "idle"
    /\ UNCHANGED <<variant, max, c, wg, total, mu, ch, pc, contextMax,
                   pcWait, panicked>>

\* Next(ctx) with the context that Use() returned for user t: contextMax is
\* computed from len(wg.cMap), without the lock.
NextCall(t) ==
    /\ Principal /\ pc[t] = "idle" /\ t \in DOMAIN cMap
    /\ contextMax' = [contextMax EXCEPT ![t] = ContextMax(max, Len(cMap))]
    /\ pc' = [pc EXCEPT ![t] = "Next_get"]
    /\ phase' = IF phase = "registering" THEN "admitting" ELSE phase
    /\ UNCHANGED <<variant, max, c, wg, cMap, last, total, mu, ch, pcUse,
                   pcWait, held, panicked>>

\* if wg.get(user) >= contextMax
NextGet(t) ==
    /\ Principal /\ pc[t] = "Next_get" /\ ~mu
    /\ pc' = [pc EXCEPT ![t] = IF cMap[t] >= contextMax[t]
                                THEN "Next_range" ELSE "Next_total"]
    /\ UNCHANGED <<variant, max, c, wg, cMap, last, total, mu, ch, pcUse,
                   contextMax, pcWait, held, phase, panicked>>

\* for range wg.ch: a closed channel ends the loop; otherwise the goroutine
\* blocks until a dec() sends (the sender then unlocks and returns).
NextRange(t) ==
    /\ Principal /\ pc[t] = "Next_range"
    /\ \/ /\ ch.closed
          /\ pc' = [pc EXCEPT ![t] = "Next_total"]
          /\ UNCHANGED <<ch, mu>>
       \/ /\ ~ch.closed /\ ch.senders > 0
          /\ ch' = Received
          /\ mu' = FALSE
          /\ pc' = [pc EXCEPT ![t] = "Next_reget"]
    /\ UNCHANGED <<variant, max, c, wg, cMap, last, total, pcUse, contextMax,
                   pcWait, held, phase, panicked>>

\* if wg.get(user) < contextMax { break }
NextReget(t) ==
    /\ Principal /\ pc[t] = "Next_reget" /\ ~mu
    /\ pc' = [pc EXCEPT ![t] = IF cMap[t] < contextMax[t]
                                THEN "Next_total" ELSE "Next_range"]
    /\ UNCHANGED <<variant, max, c, wg, cMap, last, total, mu, ch, pcUse,
                   contextMax, pcWait, held, phase, panicked>>

\* for wg.total >= wg.max   (total is read without the lock)
NextTotal(t) ==
    /\ Principal /\ pc[t] = "Next_total"
    /\ pc' = [pc EXCEPT ![t] = IF total >= max THEN "Next_recv" ELSE "Next_inc"]
    /\ UNCHANGED <<variant, max, c, wg, cMap, last, total, mu, ch, pcUse,
                   contextMax, pcWait, held, phase, panicked>>

\* <-wg.ch   (a receive from a closed channel returns at once)
NextRecv(t) ==
    /\ Principal /\ pc[t] = "Next_recv"
    /\ \/ /\ ch.closed
          /\ UNCHANGED <<ch, mu>>
       \/ /\ ~ch.closed /\ ch.senders > 0
          /\ ch' = Received
          /\ mu' = FALSE
    /\ pc' = [pc EXCEPT ![t] = "Next_total"]
    /\ UNCHANGED <<variant, max, c, wg, cMap, last, total, pcUse, contextMax,
                   pcWait, held, phase, panicked>>

\* Mutant of inc: the user's count is raised and total is not.
incSkipsTotal(t) ==
    /\ Principal /\ pc[t] = "Next_inc" /\ ~mu
    /\ cMap' = [cMap EXCEPT ![t] = @ + 1]
    /\ held' = [held EXCEPT ![t] = @ + 1]
    /\ pc' = [pc EXCEPT ![t] = "idle"]
    /\ contextMax' = [contextMax EXCEPT ![t] = 0]
    /\ UNCHANGED <<variant, max, c, wg, last, total, mu, ch, pcUse, pcWait,
                   phase, panicked>>

\* wg.inc(user), after which Next returns.
inc(t) ==
    /\ Principal /\ pc[t] = "Next_inc" /\ ~mu
    /\ cMap' = [cMap EXCEPT ![t] = @ + 1]
    /\ total' = total + 1
    /\ held' = [held EXCEPT ![t] = @ + 1]
    /\ pc' = [pc EXCEPT ![t] = "idle"]
    /\ contextMax' = [contextMax EXCEPT ![t] = 0]
    /\ UNCHANGED <<variant, max, c, wg, last, mu, ch, pcUse, pcWait, phase, panicked>>

\* A unit of user u calls Done(ctx): wg.dec(u) locks, decrements both
\* counters and sends on ch while holding the lock. The send blocks until a
\* receiver arrives; on a closed channel it panics.
dec(u) ==
    /\ Principal /\ u \in DOMAIN held /\ held[u] > 0 /\ ~mu
    /\ held' = [held EXCEPT ![u] = @ - 1]
    /\ cMap' = [cMap EXCEPT ![u] = @ - 1]
    /\ total' = total - 1
    /\ mu' = TRUE
    /\ IF ch.closed
       THEN panicked' = TRUE /\ UNCHANGED ch
       ELSE ch' = [ch EXCEPT !.senders = @ + 1] /\ UNCHANGED panicked
    /\ UNCHANGED <<variant, max, c, wg, last, pc, pcUse, contextMax, pcWait, phase>>

WaitCall ==
    /\ Principal /\ WaitIdle
    /\ pcWait' = "Wait_range"
    /\ UNCHANGED <<variant, max, c, wg, cMap, last, total, mu, ch, pc, pcUse,
                   contextMax, held, phase, panicked>>

\* for range wg.ch: blocks until a dec() sends. On a channel that an earlier
\* Wait() closed the loop ends at once and the deferred close panics.
WaitRange ==
    /\ Principal /\ pcWait = "Wait_range"
    /\ \/ /\ ch.closed
          /\ panicked' = TRUE
          /\ UNCHANGED <<ch, mu, pcWait>>
       \/ /\ ~ch.closed /\ ch.senders > 0
          /\ ch' = Received
          /\ mu' = FALSE
          /\ pcWait' = "Wait_total"
          /\ UNCHANGED panicked
    /\ UNCHANGED <<variant, max, c, wg, cMap, last, total, pc, pcUse,
                   contextMax, held, phase>>

\* if wg.total <= 0 { break }   (total is read without the lock)
WaitTotal ==
    /\ Principal /\ pcWait = "Wait_total"
    /\ pcWait' = IF total <= 0 THEN "Wait_close" ELSE "Wait_range"
    /\ UNCHANGED <<variant, max, c, wg, cMap, last, total, mu, ch, pc, pcUse,
                   contextMax, held, phase, panicked>>

\* defer close(wg.ch), then Wait returns. A dec() blocked in its send
\* panics when the channel is closed under it.
WaitClose ==
    /\ Principal /\ pcWait = "Wait_close"
    /\ ch' = [ch EXCEPT !.closed = TRUE]
    /\ panicked' = (ch.senders > 0)
    /\ pcWait' = "returned"
    /\ UNCHANGED <<variant, max, c, wg, cMap, last, total, mu, pc, pcUse,
                   contextMax, held, phase>>

PNext ==
    \/ UseCall
    \/ Use
    \/ \E t \in Threads : NextCall(t)
    \/ \E t \in Threads : NextGet(t)
    \/ \E t \in Threads : NextRange(t)
    \/ \E t \in Threads : NextReget(t)
    \/ \E t \in Threads : NextTotal(t)
    \/ \E t \in Threads : NextRecv(t)
    \/ \E t \in Threads : inc(t)
    \/ \E u \in Threads : dec(u)
    \/ WaitCall
    \/ WaitRange
    \/ WaitTotal
    \/ WaitClose

----------------------------------------------------------------------------
Next == GNext \/ PNext

Spec == Init /\ [][Next]_vars

----------------------------------------------------------------------------
(* Scheduling: the Go scheduler runs every goroutine that can take a step, *)
(* so each step inside a call is weakly fair. Whether and when a client    *)
(* makes a new call (Use, Next, Wait) is up to the client; a unit that was *)
(* admitted does call Done.                                                *)

NextStep(t) ==
    \/ GNextLock(t) \/ GNextLoop(t) \/ GNextRecv(t)
    \/ NextGet(t) \/ NextRange(t) \/ NextReget(t) \/ NextTotal(t)
    \/ NextRecv(t) \/ inc(t)

WaitStep ==
    \/ GWaitWg \/ GWaitDrain \/ GWaitRecv
    \/ WaitRange \/ WaitTotal \/ WaitClose

DoneStep == GDone \/ \E u \in Threads : dec(u)

Fairness ==
    /\ \A t \in Threads : WF_vars(NextStep(t))
    /\ WF_vars(WaitStep)
    /\ WF_vars(Use)
    /\ WF_vars(DoneStep)

FairSpec == Spec /\ Fairness

----------------------------------------------------------------------------
(* Clients that break the calling rules of the per-principal variant: a    *)
(* context that Use() of this pool did not return, and a Done(ctx) without *)
(* a Next(ctx) before it. These calls are not part of Spec.                *)

\* A user id carried by a context of another pool; Use() of this pool never
\* hands it out, because it refuses once len(cMap) >= max.
Foreign == MaxMax + 1

\* Unmatched Done(ctx) calls explored per user.
MaxUnmatched == 1

\* Next(ctx) or Done(ctx) with a context that has no int under "user": the
\* type assertion fails and the method panics before touching the pool.
BadContext ==
    /\ Principal
    /\ panicked' = TRUE
    /\ UNCHANGED <<variant, max, c, wg, cMap, last, total, mu, ch, pc, pcUse,
                   contextMax, pcWait, held, phase>>

\* Next(ctx) with the foreign id, run without interruption on a pool that
\* has a free slot. max / len(cMap) panics on an empty registry (integer
\* division by zero). Otherwise get() reads the zero value of the missing
\* key, which is below contextMax >= 1, the total loop is passed, and
\* inc() stores cMap[user] = 1: the map gains the key.
ForeignNext ==
    /\ Principal /\ Foreign \notin DOMAIN cMap /\ ~mu /\ total < max
    /\ IF Len(cMap) = 0
       THEN /\ panicked' = TRUE
            /\ UNCHANGED <<cMap, total, held, phase>>
       ELSE /\ cMap' = cMap @@ (Foreign :> 1)
            /\ total' = total + 1
            /\ held' = held @@ (Foreign :> 1)
            /\ phase' = IF phase = "registering" THEN "admitting" ELSE phase
            /\ UNCHANGED panicked
    /\ UNCHANGED <<variant, max, c, wg, last, mu, ch, pc, pcUse, contextMax,
                   pcWait>>

\* Done(ctx) with the foreign id: dec() decrements the zero value of the
\* missing key and stores -1 under it, decrements total and sends.
ForeignDone ==
    /\ Principal /\ Foreign \notin DOMAIN cMap /\ ~mu
    /\ cMap' = cMap @@ (Foreign :> -1)
    /\ held' = held @@ (Foreign :> 0)
    /\ total' = total - 1
    /\ mu' = TRUE
    /\ IF ch.closed
       THEN panicked' = TRUE /\ UNCHANGED ch
       ELSE ch' = [ch EXCEPT !.senders = @ + 1] /\ UNCHANGED panicked
    /\ UNCHANGED <<variant, max, c, wg, last, pc, pcUse, contextMax, pcWait, phase>>

\* Done(ctx) of a registered user none of whose units is running: dec()
\* has no check, it decrements both counters and sends.
UnmatchedDone(u) ==
    /\ Principal /\ u \in DOMAIN cMap /\ held[u] = 0 /\ ~mu
    /\ cMap[u] > -MaxUnmatched
    /\ cMap' = [cMap EXCEPT ![u] = @ - 1]
    /\ total' = total - 1
    /\ mu' = TRUE
    /\ IF ch.closed
       THEN panicked' = TRUE /\ UNCHANGED ch
       ELSE ch' = [ch EXCEPT !.senders = @ + 1] /\ UNCHANGED panicked
    /\ UNCHANGED <<variant, max, c, wg, last, pc, pcUse, contextMax, pcWait,
                   held, phase>>

Misuse ==
    \/ BadContext
    \/ ForeignNext
    \/ ForeignDone
    \/ dec(Foreign)
    \/ \E u \in Threads \cup {Foreign} : UnmatchedDone(u)

SpecMisuse == Init /\ [][Next \/ Misuse]_vars

----------------------------------------------------------------------------
(* Notions used by the properties *)

\* The quota of a user for the registry as it is now.
Quota == ContextMax(max, Len(cMap))

\* A goroutine is blocked in, or about to execute, a receive on ch.
ReceiverReady ==
    \/ \E t \in Threads : pc[t] \in {"GNext_recv", "Next_range", "Next_recv"}
    \/ pcWait \in {"GWait_recv", "Wait_range"}

\* This step is the return of a Wait() call.
WaitReturns == pcWait # "returned" /\ pcWait' = "returned"

\* Next(ctx) of user t is blocked waiting for a wake event.
Blocked(t) == pc[t] \in {"Next_range", "Next_recv"}

----------------------------------------------------------------------------
(* C1: global variant: in every reachable state 0 <= c <= max, and the     *)
(* number of units that returned from Next() and have not yet called       *)
(* Done() is at most c.                                                    *)
C1_GlobalCounterWithinMax ==
    variant = "global" => (0 <= c /\ c <= max /\ held[0] <= c)

\* The pool is full (c = max > 1, every slot held by a running unit) and a
\* further Next() is blocked in its receive.
C1_Witness ==
    /\ variant = "global" /\ max > 1 /\ c = max /\ held[0] = max
    /\ \E t \in Threads : pc[t] = "GNext_recv"

(* C2: per-principal variant: the check total < max and the increment are  *)
(* one atomic step, so total <= max in every reachable state.              *)
C2_TotalWithinMax ==
    variant = "principal" => total <= max

(* C3: per-principal variant: in every reachable state every registered    *)
(* user's held count is at most ceil(max / N), N the registry size in that *)
(* state.                                                                  *)
C3_HeldWithinQuota ==
    variant = "principal" => \A u \in DOMAIN cMap : cMap[u] <= Quota

(* C4: per-principal variant, all users registered before the first        *)
(* Next(ctx) and none later: a user that holds ceil(max / N) slots is not  *)
(* granted another one while it holds them.                                *)
C4_QuotaBlocks ==
    [][(variant = "principal" /\ phase' # "late") =>
         \A u \in DOMAIN cMap : cMap[u] >= Quota => cMap'[u] <= cMap[u]]_vars

(* C5: per-principal variant, deadlock avoidance: the other users never    *)
(* jointly hold all max slots while a user that holds none is waiting in   *)
(* Next(ctx) for a slot to be released.                                    *)
C5_NoUserShutOut ==
    variant = "principal" =>
        ~ \E t \in DOMAIN cMap :
            /\ pc[t] = "Next_recv" /\ ~ch.closed /\ ch.senders = 0
            /\ held[t] = 0
            /\ Holding >= max

(* C6: both variants: Wait() does not return while a unit holds a slot:    *)
(* when Wait() returns, every unit whose Next has returned has called      *)
(* Done.                                                                   *)
C6_WaitReturnsWhenNoneHeld ==
    [][WaitReturns => Holding = 0]_vars

(* C7: both variants: a Wait() that is in progress while no unit is        *)
(* outstanding returns, under fair scheduling, unless a new unit is        *)
(* admitted first; it does not block forever.                              *)
C7_WaitEventuallyReturns ==
    (~WaitIdle /\ Holding = 0 /\ ch.senders = 0 /\ ~panicked)
        ~> (pcWait = "returned" \/ Holding > 0 \/ panicked)

(* C8: per-principal variant: Wait() returns only in a state where total   *)
(* is 0 and no Next(ctx) call is blocked waiting for admission.            *)
C8_WaitReturnsWhenNonePending ==
    [][(variant = "principal" /\ WaitReturns) =>
         (total = 0 /\ \A t \in Threads : ~Blocked(t))]_vars

(* C9: Use() never blocks: a Use() call in progress can always complete    *)
(* by steps of the calls already in progress (the lock is free, or the     *)
(* holder's send has a receiver); and the registry never holds more than   *)
(* max users.                                                              *)
C9_UseNeverBlocks ==
    variant = "principal" =>
        /\ Len(cMap) <= max
        /\ pcUse = "Use_lock" => (~mu \/ ReceiverReady)

(* C10: both variants: a Done call is never left waiting for a receiver of *)
(* its wake signal, and it never holds the mutex while it waits for one.   *)
C10_DoneNeverWaitsForReceiver ==
    /\ ch.senders > 0 => ReceiverReady
    /\ ~(mu /\ variant = "principal" /\ ch.senders > 0 /\ ~ReceiverReady)

\* No call of Use, Next or Wait is in progress.
Quiescent ==
    /\ \A t \in Threads : pc[t] = "idle"
    /\ pcUse = "idle"
    /\ WaitIdle

(* C11: round trip: Next followed by Done, repeated by one task fewer      *)
(* than max times and with no Wait() called, completes every call: once    *)
(* the task is between calls no Done is left blocked in its send, nothing  *)
(* has panicked, and total is 0 again.                                     *)
C11_RoundTripCompletes ==
    (Quiescent /\ pcWait = "idle" /\ Holding = 0 /\ max > 1 /\ phase # "late")
        => (ch.senders = 0 /\ ~panicked /\ total = 0)

----------------------------------------------------------------------------
(* The global variant on its own, under the scheduling of FairSpec. *)
InitGlobal == Init /\ variant = "global"

\* sync.Mutex hands the lock to a goroutine that has waited for it (its
\* starvation mode), so a Next() waiting in wg.mu.Lock() is not overtaken
\* forever.
FairnessGlobal ==
    /\ Fairness
    /\ \A t \in Threads : SF_vars(GNextLock(t))

FairSpecGlobal == InitGlobal /\ [][GNext]_vars /\ FairnessGlobal

C13_UsageNeverPanics ==
    (variant = "principal" /\ phase # "late" /\ pcWait # "Wait_range")
        => ~panicked

(* C14: per-principal variant: the quota is evaluated afresh at every      *)
(* check: whenever a Next(ctx) is granted, the user's held count before    *)
(* the increment is below ceil(max / N) for the registry size N at the     *)
(* moment of the grant, also when users registered while the call waited.  *)
C14_GrantBelowCurrentQuota ==
    [][(variant = "principal" /\ ~ch.closed) =>
         \A u \in DOMAIN cMap : cMap'[u] > cMap[u] => cMap[u] < Quota]_vars

\* The admission predicate of user t holds: its held count is below its
\* quota (the one the call computed and the current one) and total < max.
Eligible(t) ==
    /\ t \in DOMAIN cMap
    /\ cMap[t] < contextMax[t] /\ cMap[t] < Quota
    /\ total < max

(* C15: per-principal variant, wake delivery: a Next(ctx) whose predicate  *)
(* a Done has made true is granted without a further Done: it is never     *)
(* left blocked in its receive, its predicate true, when no wake signal is *)
(* pending and Wait() is not about to close the channel, because Wait()    *)
(* or another Next consumed the signal.                                    *)
C15_NoLostWake ==
    variant = "principal" =>
        \A t \in Threads :
            ~(/\ Blocked(t) /\ Eligible(t)
              /\ ch.senders = 0 /\ ~ch.closed
              /\ pcWait \notin {"Wait_total", "Wait_close"})

(* C16: per-principal variant: held counts and total move in lock-step:    *)
(* the sum of the held counts over the registry equals total; a granted    *)
(* Next(ctx) raises the caller's count and total by 1, a Done(ctx) lowers  *)
(* its user's count and total by 1, and no step changes another user's     *)
(* count or max.                                                           *)
C16_LockStep ==
    /\ [](variant = "principal" => SumOver(cMap, DOMAIN cMap) = total)
    /\ [][variant = "principal" =>
            /\ max' = max
            /\ \A t \in Threads :
                 (pc[t] = "Next_inc" /\ pc'[t] = "idle") =>
                     (cMap'[t] = cMap[t] + 1 /\ total' = total + 1)
            /\ \A u \in DOMAIN held :
                 held'[u] < held[u] =>
                     (cMap'[u] = cMap[u] - 1 /\ total' = total - 1)
            /\ \/ (total' = total /\ \A u \in DOMAIN cMap : cMap'[u] = cMap[u])
               \/ \E u \in DOMAIN cMap :
                    /\ cMap'[u] - cMap[u] = total' - total
                    /\ total' - total \in {1, -1}
                    /\ \A v \in DOMAIN cMap \ {u} : cMap'[v] = cMap[v]]_vars

\* Two users hold a slot each and a Done of one of them is inside dec.
C16_Witness ==
    /\ variant = "principal" /\ mu /\ ch.senders = 1 /\ total = 1
    /\ \E u, v \in DOMAIN cMap : u # v /\ cMap[u] = 1 /\ cMap[v] = 0

(* C17: per-principal variant: a Next(ctx) or Done(ctx) given a handle that *)
(* this pool never issued panics and leaves the registry, the held counts   *)
(* and total as they were; in particular the registry never holds a key     *)
(* that Use() did not hand out, and total stays the sum over issued keys.   *)
C17_ForeignHandleChangesNothing ==
    /\ [](variant = "principal" => DOMAIN cMap = 1..last)
    /\ [][(ForeignNext \/ ForeignDone \/ BadContext) =>
            (panicked' /\ cMap' = cMap /\ total' = total)]_vars

(* C18: per-principal variant: a Done(ctx) of a user whose held count is 0  *)
(* fails instead of decrementing, so that with handles of this pool only,   *)
(* every held count and total are >= 0 in every reachable state.            *)
C18_CountersNeverNegative ==
    (variant = "principal" /\ DOMAIN cMap = 1..last) =>
        (total >= 0 /\ \A u \in DOMAIN cMap : cMap[u] >= 0)

(* C19: global variant, with no Next() concurrent with Wait(): c counts the *)
(* units still running plus the Done signals not yet received, so every     *)
(* signal is received exactly once; when Wait() returns c is 0, no unit is  *)
(* running and no Done() is blocked in, or still has to perform, its send.  *)
C19_WaitDrainsAllSignals ==
    /\ [](variant = "global" => (c = held[0] + ch.senders /\ wg = held[0]))
    /\ [][(variant = "global" /\ WaitReturns) =>
            (c' = 0 /\ ch'.senders = 0 /\ held'[0] = 0 /\ ~panicked')]_vars

\* Wait() has passed wg.wg.Wait() and is receiving, with one lingering
\* signal per admitted unit.
C19_Witness ==
    /\ variant = "global" /\ pcWait = "GWait_recv" /\ max > 1
    /\ ch.senders = max /\ c = max

(* C20: per-principal variant, with handles of this pool, one Done(ctx) per *)
(* Next(ctx), users registered before the first Next(ctx) and one Wait():   *)
(* once Wait() has closed the channel and returned, nothing has panicked,   *)
(* no Done(ctx) is blocked in its send, no unit is still running (it would  *)
(* send on the closed channel later), and no Next(ctx) stands in a loop     *)
(* that the closed channel lets it pass.                                    *)
C20_CloseAfterLastDone ==
    (variant = "principal" /\ phase # "late" /\ ch.closed /\ pcWait = "returned") =>
        /\ ~panicked
        /\ ch.senders = 0
        /\ Holding = 0
        /\ \A t \in Threads : ~Blocked(t)

====
